---- MODULE Spec2Model ----
(***************************************************************************)
(* rosautodoc: a relay in front of the ROS master that records, per node,  *)
(* the parameters, topics and services seen in the intercepted XMLRPC      *)
(* calls, and renders them to Markdown or HTML files.                      *)
(*                                                                         *)
(* A Python string is modelled as a sequence of one-character strings, so  *)
(* that replace, startswith, slicing, formatting and comparison are        *)
(* computed character by character as the code computes them.              *)
(***************************************************************************)
EXTENDS Integers, Sequences, FiniteSets, TLC

(***************************************************************************)
(* String literals of the source, character by character.                  *)
(***************************************************************************)
TODO_DESC ==
    <<"T","O","D","O",":"," ","d","e","s","c","r","i","p","t","i","o","n">>
S_slash ==
    <<"/">>
S_underscore ==
    <<"_">>
S_tilde ==
    <<"~">>
S_dot ==
    <<".">>
S_title_pre ==
    <<"#"," ","T","h","e"," ">>
S_title_post ==
    <<" ","n","o","d","e">>
S_params_hdr ==
    <<"#","#"," ","P","a","r","a","m","e","t","e","r","s",":">>
S_services_hdr ==
    <<"#","#"," ","S","e","r","v","i","c","e","s",":">>
S_subs_hdr ==
    <<"#","#"," ","S","u","b","s","c","r","i","b","e","r","s",":">>
S_pubs_hdr ==
    <<"#","#"," ","P","u","b","l","i","s","h","e","r","s",":">>
S_item ==
    <<"-"," ">>
S_todo_type ==
    <<" ","[","T","O","D","O",":"," ","t","y","p","e","]"," ","-","-"," ">>
S_lbr ==
    <<" ","[">>
S_rbr_dash ==
    <<"]"," ","-","-"," ">>
S_manifest_title ==
    <<"#"," ","R","O","S"," ","s","y","s","t","e","m"," ","d","o","c","u","m","e","n","t","a","t","i","o","n">>
S_nodes_hdr ==
    <<"#","#"," ","N","o","d","e","s">>
S_md_link_pre ==
    <<"-"," ","[">>
S_md_link_mid ==
    <<"]","(">>
S_md_link_post ==
    <<".","m","d",")">>
S_html_link_pre ==
    <<"-"," ","<","a"," ","h","r","e","f","=","\"">>
S_html_link_mid ==
    <<".","h","t","m","l","\"",">">>
S_html_link_post ==
    <<"<","/","a",">">>
S_index ==
    <<"i","n","d","e","x">>
S_README ==
    <<"R","E","A","D","M","E">>
S_md ==
    <<"m","d">>
S_html ==
    <<"h","t","m","l">>
S_None ==
    <<"N","o","n","e">>
S_html_open ==
    <<"<","h","t","m","l",">">>
S_head ==
    <<"<","h","e","a","d",">","<","/","h","e","a","d",">">>
S_html_close ==
    <<"<","/","h","t","m","l",">">>
S_ul ==
    <<"<","u","l",">">>
S_ul_close ==
    <<"<","/","u","l",">">>
S_h1 ==
    <<"<","h","1",">">>
S_h1_close ==
    <<"<","/","h","1",">">>
S_h2 ==
    <<"<","h","2",">">>
S_h2_close ==
    <<"<","/","h","2",">">>
S_li ==
    <<"<","l","i",">">>
S_li_close ==
    <<"<","/","l","i",">">>
S_p ==
    <<"<","p",">">>
S_p_close ==
    <<"<","/","p",">">>
S_h2_mark ==
    <<"#","#"," ">>
S_h1_mark ==
    <<"#"," ">>
S_UNKNOWN ==
    <<"U","N","K","N","O","W","N">>
S_rosout ==
    <<"/","r","o","s","o","u","t">>
S_tcp_keepalive ==
    <<"/","t","c","p","_","k","e","e","p","a","l","i","v","e">>
S_use_sim_time ==
    <<"/","u","s","e","_","s","i","m","_","t","i","m","e">>
S_elsewhere ==
    <<"e","l","s","e","w","h","e","r","e">>
S_out ==
    <<"o","u","t">>
N_talker ==
    <<"/","t","a","l","k","e","r">>
N_talker_rel ==
    <<"t","a","l","k","e","r">>
N_ab ==
    <<"/","a","/","b">>
N_a_b ==
    <<"/","a","_","b">>
N_README_rel ==
    <<"R","E","A","D","M","E">>
N_foo_bar ==
    <<"/","f","o","o","/","b","a","r">>
N_foo ==
    <<"f","o","o">>
N__x ==
    <<"/","_","x">>
K_rate ==
    <<"/","t","a","l","k","e","r","/","r","a","t","e">>
K_zeta ==
    <<"/","z","e","t","a">>
T_chatter ==
    <<"/","c","h","a","t","t","e","r">>
T_talker_t ==
    <<"/","t","a","l","k","e","r","/","t">>
Y_String ==
    <<"s","t","d","_","m","s","g","s","/","S","t","r","i","n","g">>
Y_Int32 ==
    <<"s","t","d","_","m","s","g","s","/","I","n","t","3","2">>
S_api ==
    <<"h","t","t","p",":","/","/","h",":","1","/">>
\* The printable ASCII characters, chr(32)..chr(126), in code order (chr(96)
\* is written out by name).
Ascii ==
    <<" ","!","\"","#","$","%","&","'","(",")","*","+",",","-",".","/","0","1","2","3","4","5","6","7","8","9",":",";","<","=",">","?","@","A","B","C","D","E","F","G","H","I","J","K","L","M","N","O","P","Q","R","S","T","U","V","W","X","Y","Z","[","\\","]","^","_","<backtick>","a","b","c","d","e","f","g","h","i","j","k","l","m","n","o","p","q","r","s","t","u","v","w","x","y","z","{","|","}","~">>
S_one ==
    <<"1">>

(***************************************************************************)
(* Python built-ins used by the source, on character sequences.            *)
(***************************************************************************)
\* ord() of a printable ASCII character: the order str comparison uses.
Ord(c) ==
    31 + (CHOOSE i \in 1..Len(Ascii) : Ascii[i] = c)

\* a < b for Python 2 str: lexicographic by character code, a proper prefix first.
RECURSIVE StrLess(_, _)
StrLess(a, b) ==
    IF b = <<>> THEN FALSE
    ELSE IF a = <<>> THEN TRUE
    ELSE IF a[1] = b[1] THEN StrLess(Tail(a), Tail(b))
    ELSE Ord(a[1]) < Ord(b[1])

\* s.startswith(prefix)
startswith(s, prefix) ==
    Len(prefix) <= Len(s) /\ SubSeq(s, 1, Len(prefix)) = prefix

\* s.replace(old, new): every non-overlapping occurrence, left to right.
RECURSIVE replace(_, _, _)
replace(s, old, new) ==
    IF s = <<>> THEN <<>>
    ELSE IF startswith(s, old)
         THEN new \o replace(SubSeq(s, Len(old) + 1, Len(s)), old, new)
         ELSE <<Head(s)>> \o replace(Tail(s), old, new)

\* s.replace(old, new, 1): the first occurrence only.
RECURSIVE replace1(_, _, _)
replace1(s, old, new) ==
    IF s = <<>> THEN <<>>
    ELSE IF startswith(s, old)
         THEN new \o SubSeq(s, Len(old) + 1, Len(s))
         ELSE <<Head(s)>> \o replace1(Tail(s), old, new)

\* x in list
InList(x, list) ==
    \E i \in 1..Len(list) : list[i] = x

\* sorted(list) for a list of str: insertion into the sorted prefix, stable.
RECURSIVE InsertSorted(_, _)
InsertSorted(list, x) ==
    IF list = <<>> THEN <<x>>
    ELSE IF StrLess(x, Head(list)) THEN <<x>> \o list
    ELSE <<Head(list)>> \o InsertSorted(Tail(list), x)

RECURSIVE sorted(_)
sorted(list) ==
    IF list = <<>> THEN <<>>
    ELSE InsertSorted(sorted(SubSeq(list, 1, Len(list) - 1)), list[Len(list)])

\* sorted(d.keys()) / sorted(d): the keys of a dict in increasing order.
RECURSIVE sortedKeys(_)
sortedKeys(keys) ==
    IF keys = {} THEN <<>>
    ELSE LET m == CHOOSE x \in keys : \A y \in keys : ~StrLess(y, x)
         IN  <<m>> \o sortedKeys(keys \ {m})

\* os.path.join(a, b) for two components.
join(a, b) ==
    IF startswith(b, S_slash) THEN b
    ELSE IF a = <<>> \/ a[Len(a)] = "/" THEN a \o b
    ELSE a \o S_slash \o b

\* {} and d[key] = value on a dict, a function from its keys.
EmptyDict ==
    [k \in {} |-> <<>>]

DictSet(d, key, value) ==
    [k \in (DOMAIN d) \cup {key} |-> IF k = key THEN value ELSE d[k]]

(***************************************************************************)
(* formatConverters.py                                                     *)
(***************************************************************************)
MARKDOWN ==
    "markdown"

HTML ==
    "html"

SUPPORTED_DOC_FORMATS ==
    {MARKDOWN, HTML}

\* FileExtension.get: extensionMap.get(docFormat), None for an unknown format
\* (formatted into a name by %s as "None").
FileExtension_get(docFormat) ==
    IF docFormat = MARKDOWN THEN S_md
    ELSE IF docFormat = HTML THEN S_html
    ELSE S_None

\* The characters str.strip() removes: space, \t, \n, \r, \f and the
\* vertical tab chr(11), which stands in its string as itself.
Whitespace ==
    {" ", "\t", "\n", "\r", "\f", ""}

\* len(line.strip()) > 0: some character of the line is not whitespace.
HasText(line) ==
    \E i \in 1..Len(line) : line[i] \notin Whitespace

\* One iteration of the loop of MarkdownToHtml.convert: the state is the
\* pair (htmlLines, writingList).
ConvertLine(st, line) ==
    LET isList == ~startswith(line, S_h2_mark) /\ ~startswith(line, S_h1_mark)
                  /\ startswith(line, S_item)
        out ==
            IF startswith(line, S_h2_mark)
            THEN S_h2 \o SubSeq(line, 4, Len(line)) \o S_h2_close
            ELSE IF startswith(line, S_h1_mark)
            THEN S_h1 \o SubSeq(line, 3, Len(line)) \o S_h1_close
            ELSE IF startswith(line, S_item)
            THEN S_li \o SubSeq(line, 3, Len(line)) \o S_li_close
            ELSE IF HasText(line)
            THEN S_p \o line \o S_p_close
            ELSE line
        opened ==
            IF isList /\ ~st.writingList THEN Append(st.htmlLines, S_ul)
            ELSE st.htmlLines
        closed ==
            IF ~isList /\ st.writingList THEN Append(opened, S_ul_close)
            ELSE opened
    IN  [htmlLines |-> Append(closed, out), writingList |-> isList]

RECURSIVE ConvertLoop(_, _)
ConvertLoop(st, lines) ==
    IF lines = <<>> THEN st
    ELSE ConvertLoop(ConvertLine(st, Head(lines)), Tail(lines))

\* MarkdownToHtml.convert(lines)
MarkdownToHtml_convert(lines) ==
    LET st == ConvertLoop([htmlLines |-> <<S_html_open, S_head>>,
                           writingList |-> FALSE], lines)
        closed == IF st.writingList THEN Append(st.htmlLines, S_ul_close)
                  ELSE st.htmlLines
    IN  Append(closed, S_html_close)

(***************************************************************************)
(* docWriter.py: NodeInfo                                                  *)
(***************************************************************************)
\* NodeInfo.__init__
NodeInfo(nodeName) ==
    [nodeName |-> nodeName, params |-> <<>>, pubs |-> EmptyDict,
     subs |-> EmptyDict, services |-> EmptyDict]

\* getCleanName with every leading '_' removed (lstrip).
RECURSIVE lstripUnderscores(_)
lstripUnderscores(s) ==
    IF startswith(s, S_underscore) THEN lstripUnderscores(Tail(s)) ELSE s

getCleanName_lstrip(self) ==
    lstripUnderscores(replace(self.nodeName, S_slash, S_underscore))

\* NodeInfo.getCleanName
getCleanName(self) ==
    LET cleanNodeName == replace(self.nodeName, S_slash, S_underscore)
    IN  IF startswith(cleanNodeName, S_underscore)
        THEN SubSeq(cleanNodeName, 2, Len(cleanNodeName))
        ELSE cleanNodeName

\* addParam without the test of membership.
NodeInfo_addParam_always(self, param) ==
    [self EXCEPT !.params = Append(@, param)]

\* NodeInfo.addParam
NodeInfo_addParam(self, param) ==
    IF ~InList(param, self.params)
    THEN [self EXCEPT !.params = Append(@, param)]
    ELSE self

\* NodeInfo.addPub
NodeInfo_addPub(self, topic, pubType) ==
    [self EXCEPT !.pubs = DictSet(@, topic, pubType)]

\* NodeInfo.addSub
NodeInfo_addSub(self, topic, subType) ==
    [self EXCEPT !.subs = DictSet(@, topic, subType)]

\* NodeInfo.addService
NodeInfo_addService(self, service, serviceType) ==
    [self EXCEPT !.services = DictSet(@, service, serviceType)]

\* NodeInfo.__removeNamespace
removeNamespace(self, namespace) ==
    IF startswith(namespace, self.nodeName)
    THEN replace1(namespace, self.nodeName, S_tilde)
    ELSE namespace

\* "- %s [TODO: type] -- %s" % (name, TODO_DESC)
ParamLine(self, name) ==
    S_item \o removeNamespace(self, name) \o S_todo_type \o TODO_DESC

\* "- %s [%s] -- %s" % (name, type, TODO_DESC)
TypedLine(self, name, type) ==
    S_item \o removeNamespace(self, name) \o S_lbr \o type \o S_rbr_dash
        \o TODO_DESC

\* ParamLines without the sort: the parameters in the order of the list.
ParamLines_unsorted(self) ==
    [i \in 1..Len(self.params) |-> ParamLine(self, self.params[i])]

\* The lines of one section body: one entry per name of the sorted list.
ParamLines(self) ==
    LET names == sorted(self.params)
    IN  [i \in 1..Len(names) |-> ParamLine(self, names[i])]

TypedLines(self, d) ==
    LET names == sortedKeys(DOMAIN d)
    IN  [i \in 1..Len(names) |-> TypedLine(self, names[i], d[names[i]])]

\* NodeInfo.document: the Markdown lines built before the conversion.
NodeInfo_lines(self) ==
    <<S_title_pre \o self.nodeName \o S_title_post, <<>>, S_params_hdr>>
        \o ParamLines(self)
        \o <<<<>>, S_services_hdr>> \o TypedLines(self, self.services)
        \o <<<<>>, S_subs_hdr>> \o TypedLines(self, self.subs)
        \o <<<<>>, S_pubs_hdr>> \o TypedLines(self, self.pubs)

\* NodeInfo.document: the name of the file it writes.
NodeInfo_filename(self, outputDir, docFormat) ==
    join(outputDir, getCleanName(self) \o S_dot \o FileExtension_get(docFormat))

\* NodeInfo.document: what it writes (the lines; each is written followed
\* by a newline).
NodeInfo_content(self, docFormat) ==
    IF docFormat = HTML THEN MarkdownToHtml_convert(NodeInfo_lines(self))
    ELSE NodeInfo_lines(self)

\* open(filename, "w"); write; close: the file is created or replaced.
WriteFile(fs, filename, content) ==
    DictSet(fs, filename, content)

\* NodeInfo.document
NodeInfo_document(self, outputDir, docFormat, fs) ==
    WriteFile(fs, NodeInfo_filename(self, outputDir, docFormat),
              NodeInfo_content(self, docFormat))

(***************************************************************************)
(* docWriter.py: RosDocWriter.  The writer is the pair (nodeNames, nodes); *)
(* nodes is a dict from node name to NodeInfo.                             *)
(***************************************************************************)
\* RosDocWriter.__init__: one NodeInfo per name of the list.
RECURSIVE RosDocWriter_init(_)
RosDocWriter_init(nodeNames) ==
    IF nodeNames = <<>> THEN EmptyDict
    ELSE LET n == nodeNames[Len(nodeNames)]
         IN  DictSet(RosDocWriter_init(SubSeq(nodeNames, 1, Len(nodeNames) - 1)),
                     n, NodeInfo(n))

\* __hasNode without the test of the empty list.
hasNode_noTrackAll(nodeNames, nodes, nodeName) ==
    nodeName \in DOMAIN nodes

\* RosDocWriter.__hasNode
hasNode(nodeNames, nodes, nodeName) ==
    Len(nodeNames) = 0 \/ nodeName \in DOMAIN nodes

\* __getNode creating a NodeInfo on every call.
getNode_fresh(nodes, nodeName) ==
    DictSet(nodes, nodeName, NodeInfo(nodeName))

\* RosDocWriter.__getNode: the dict after the get-or-create.
getNode(nodes, nodeName) ==
    IF nodeName \notin DOMAIN nodes
    THEN DictSet(nodes, nodeName, NodeInfo(nodeName))
    ELSE nodes

\* RosDocWriter.addParam: the dict after the call.
RosDocWriter_addParam(nodeNames, nodes, nodeName, param) ==
    IF hasNode(nodeNames, nodes, nodeName)
    THEN [getNode(nodes, nodeName) EXCEPT ![nodeName] = NodeInfo_addParam(@, param)]
    ELSE nodes

\* RosDocWriter.addPub
RosDocWriter_addPub(nodeNames, nodes, nodeName, topic, pubType) ==
    IF hasNode(nodeNames, nodes, nodeName)
    THEN [getNode(nodes, nodeName) EXCEPT
              ![nodeName] = NodeInfo_addPub(@, topic, pubType)]
    ELSE nodes

\* RosDocWriter.addSub
RosDocWriter_addSub(nodeNames, nodes, nodeName, topic, subType) ==
    IF hasNode(nodeNames, nodes, nodeName)
    THEN [getNode(nodes, nodeName) EXCEPT
              ![nodeName] = NodeInfo_addSub(@, topic, subType)]
    ELSE nodes

\* RosDocWriter.addService
RosDocWriter_addService(nodeNames, nodes, nodeName, service, serviceType) ==
    IF hasNode(nodeNames, nodes, nodeName)
    THEN [getNode(nodes, nodeName) EXCEPT
              ![nodeName] = NodeInfo_addService(@, service, serviceType)]
    ELSE nodes

\* RosDocWriter.__writeManifest: the name of the manifest file.
Manifest_filename(outputDir, docFormat) ==
    join(outputDir,
         (IF docFormat = HTML THEN S_index ELSE S_README)
             \o S_dot \o FileExtension_get(docFormat))

\* RosDocWriter.__writeManifest: the link of one node.
Manifest_link(nodes, nodeName, docFormat) ==
    LET cleanNodeName == getCleanName(nodes[nodeName])
    IN  IF docFormat = HTML
        THEN S_html_link_pre \o cleanNodeName \o S_html_link_mid \o nodeName
                 \o S_html_link_post
        ELSE S_md_link_pre \o nodeName \o S_md_link_mid \o cleanNodeName
                 \o S_md_link_post

\* RosDocWriter.__writeManifest: the lines before the conversion.  The first
\* element of the list literal is two adjacent string literals, which Python
\* concatenates: the title and the empty string are one line.
Manifest_lines(nodes, docFormat) ==
    LET sortedNodes == sortedKeys(DOMAIN nodes)
    IN  <<S_manifest_title \o <<>>, S_nodes_hdr, <<>>>>
            \o [i \in 1..Len(sortedNodes) |->
                    Manifest_link(nodes, sortedNodes[i], docFormat)]

\* RosDocWriter.__writeManifest
writeManifest(nodes, outputDir, docFormat, fs) ==
    WriteFile(fs, Manifest_filename(outputDir, docFormat),
              IF docFormat = HTML
              THEN MarkdownToHtml_convert(Manifest_lines(nodes, docFormat))
              ELSE Manifest_lines(nodes, docFormat))

\* The loop of RosDocWriter.document over self.__nodes.items(), in the
\* order the dict yields them.
RECURSIVE DocumentNodes(_, _, _, _, _)
DocumentNodes(nodes, order, outputDir, docFormat, fs) ==
    IF order = <<>> THEN fs
    ELSE DocumentNodes(nodes, Tail(order), outputDir, docFormat,
                       NodeInfo_document(nodes[Head(order)], outputDir,
                                         docFormat, fs))

\* RosDocWriter.document
RosDocWriter_document(nodes, order, outputDir, docFormat, fs) ==
    LET written == DocumentNodes(nodes, order, outputDir, docFormat, fs)
    IN  IF Cardinality(DOMAIN nodes) > 0
        THEN writeManifest(nodes, outputDir, docFormat, written)
        ELSE written

\* The orders in which a dict can yield its items: the enumerations of its
\* keys without repetition.
ItemOrders(nodes) ==
    {o \in [1..Cardinality(DOMAIN nodes) -> DOMAIN nodes] :
        \A i, j \in DOMAIN o : i # j => o[i] # o[j]}

(***************************************************************************)
(* masterProxy.py: RosMasterFunctions                                      *)
(***************************************************************************)
\* List of all methods supported by the ROS master
RosMasterMethods ==
    <<"getPid", "registerService", "unregisterService", "registerSubscriber",
      "unregisterSubscriber", "registerPublisher", "unregisterPublisher",
      "lookupNode", "getPublishedTopics", "getTopicTypes", "getSystemState",
      "getUri", "lookupService", "deleteParam", "setParam", "getParam",
      "searchParam", "subscribeParam", "unsubscribeParam", "hasParam",
      "getParamNames">>

\* List of ROS parameters to ignore
FilterParameters ==
    {S_tcp_keepalive, S_use_sim_time}

\* List of published ROS topics to ignore
FilterPublishedTopic ==
    {S_rosout}

\* List of subscribed ROS topics to ignore
FilterSubscribedTopics ==
    {}

\* List of ROS services to ignore
FilterServices ==
    {}

\* The node names handed to the writer as given.
Normalize_none(nodeNames) ==
    nodeNames

\* RosMasterFunctions.__init__: "Add a prefix slash if one is not given".
Normalize(nodeNames) ==
    [i \in 1..Len(nodeNames) |->
        IF ~startswith(nodeNames[i], S_slash)
        THEN S_slash \o nodeNames[i]
        ELSE nodeNames[i]]

\* The intercept callbacks.  Each yields raised (the call of the callback
\* raised: TypeError, when the number of arguments is not the number of its
\* parameters) and the dict of the writer after it.
\* _registerPublisher without the test of the exclusion list.
hook_registerPublisher_noFilter(args, nodeNames, nodes) ==
    IF Len(args) # 4 THEN [raised |-> TRUE, nodes |-> nodes]
    ELSE [raised |-> FALSE,
          nodes |-> RosDocWriter_addPub(nodeNames, nodes, args[1], args[2],
                                        args[3])]

hook_registerPublisher(args, nodeNames, nodes) ==
    IF Len(args) # 4 THEN [raised |-> TRUE, nodes |-> nodes]
    ELSE [raised |-> FALSE,
          nodes |-> IF args[2] \notin FilterPublishedTopic
                    THEN RosDocWriter_addPub(nodeNames, nodes, args[1], args[2],
                                             args[3])
                    ELSE nodes]

hook_registerSubscriber(args, nodeNames, nodes) ==
    IF Len(args) # 4 THEN [raised |-> TRUE, nodes |-> nodes]
    ELSE [raised |-> FALSE,
          nodes |-> IF args[2] \notin FilterSubscribedTopics
                    THEN RosDocWriter_addSub(nodeNames, nodes, args[1], args[2],
                                             args[3])
                    ELSE nodes]

hook_registerService(args, nodeNames, nodes) ==
    IF Len(args) # 4 THEN [raised |-> TRUE, nodes |-> nodes]
    ELSE [raised |-> FALSE,
          nodes |-> IF args[2] \notin FilterServices
                    THEN RosDocWriter_addService(nodeNames, nodes, args[1],
                                                 args[2], S_UNKNOWN)
                    ELSE nodes]

hook_getParam(args, nodeNames, nodes) ==
    IF Len(args) # 2 THEN [raised |-> TRUE, nodes |-> nodes]
    ELSE [raised |-> FALSE,
          nodes |-> IF args[2] \notin FilterParameters
                    THEN RosDocWriter_addParam(nodeNames, nodes, args[1], args[2])
                    ELSE nodes]

hook_hasParam(args, nodeNames, nodes) ==
    IF Len(args) # 2 THEN [raised |-> TRUE, nodes |-> nodes]
    ELSE [raised |-> FALSE,
          nodes |-> IF args[2] \notin FilterParameters
                    THEN RosDocWriter_addParam(nodeNames, nodes, args[1], args[2])
                    ELSE nodes]

hook_setParam(args, nodeNames, nodes) ==
    IF Len(args) # 3 THEN [raised |-> TRUE, nodes |-> nodes]
    ELSE [raised |-> FALSE,
          nodes |-> IF args[2] \notin FilterParameters
                    THEN RosDocWriter_addParam(nodeNames, nodes, args[1], args[2])
                    ELSE nodes]

\* hasattr(self, "_%s" % method): the methods the class defines a callback for.
HasCallback(method) ==
    method \in {"registerPublisher", "registerSubscriber", "registerService",
                "getParam", "hasParam", "setParam"}

\* getattr(self, callback)(*args)
Callback(method, args, nodeNames, nodes) ==
    CASE method = "registerPublisher" ->
             hook_registerPublisher(args, nodeNames, nodes)
      [] method = "registerSubscriber" ->
             hook_registerSubscriber(args, nodeNames, nodes)
      [] method = "registerService" ->
             hook_registerService(args, nodeNames, nodes)
      [] method = "getParam" -> hook_getParam(args, nodeNames, nodes)
      [] method = "hasParam" -> hook_hasParam(args, nodeNames, nodes)
      [] method = "setParam" -> hook_setParam(args, nodeNames, nodes)

\* TryCallback without its except clause: the TypeError leaves wrap.
TryCallback_noExcept(method, args, nodeNames, nodes) ==
    IF HasCallback(method)
    THEN LET r == Callback(method, args, nodeNames, nodes)
         IN  [hook |-> IF r.raised THEN "raised" ELSE "returned",
              steps |-> <<"callback">>, nodes |-> r.nodes,
              propagates |-> r.raised]
    ELSE [hook |-> "none", steps |-> <<>>, nodes |-> nodes,
          propagates |-> FALSE]

\* wrap: the try/except around the callback.  hook is what happened to the
\* callback; propagates says whether an exception leaves the try statement
\* (except Exception catches the TypeError, so none does).
TryCallback(method, args, nodeNames, nodes) ==
    IF HasCallback(method)
    THEN LET r == Callback(method, args, nodeNames, nodes)
         IN  [hook |-> IF r.raised THEN "raised" ELSE "returned",
              steps |-> <<"callback">>, nodes |-> r.nodes,
              propagates |-> FALSE]
    ELSE [hook |-> "none", steps |-> <<>>, nodes |-> nodes,
          propagates |-> FALSE]

\* PassThrough with the failure of the request caught: wrap returns None.
PassThrough_swallow(method, args, reply) ==
    [forwarded |-> <<[method |-> method, args |-> args]>>,
     result |-> IF reply.kind = "fault"
                THEN [kind |-> "return", value |-> "None"]
                ELSE [kind |-> "return", value |-> reply.value]]

\* wrap: masterFn = getattr(self.__client, method); return masterFn(*args).
\* One request to the master; its reply is returned, its failure is raised.
PassThrough(method, args, reply) ==
    [forwarded |-> <<[method |-> method, args |-> args]>>,
     result |-> IF reply.kind = "fault"
                THEN [kind |-> "raise", value |-> reply.value]
                ELSE [kind |-> "return", value |-> reply.value]]

(***************************************************************************)
(* Inputs and bounds                                                       *)
(***************************************************************************)
\* The number of requests the proxy serves before it is interrupted, at most.
MaxCalls ==
    2

\* The number of additions made to the NodeInfo of SpecNode, at most.
MaxAdds ==
    4

\* The node lists given on the command line (args.nodes).
TrackLists ==
    {<<>>, <<N_talker_rel>>, <<N_ab, N_a_b>>, <<N_README_rel, N_talker>>}

\* The caller ids of the clients (node names, absolute).
Callers ==
    {N_talker, N_a_b}

\* The argument lists of the calls received for a method.  The lists with a
\* single argument are calls with too few arguments for a callback.
ArgsFor(method) ==
    CASE method = "registerPublisher" ->
             {<<c, t, y, S_api>> : c \in Callers, t \in {T_chatter, S_rosout},
                                   y \in {Y_String, Y_Int32}}
                 \cup {<<N_talker>>}
      [] method = "registerSubscriber" ->
             {<<c, t, Y_String, S_api>> : c \in Callers,
                                          t \in {T_chatter, S_rosout}}
                 \cup {<<N_talker>>}
      [] method = "registerService" ->
             {<<c, T_talker_t, S_api, S_api>> : c \in Callers}
                 \cup {<<N_talker>>}
      [] method \in {"getParam", "hasParam"} ->
             {<<c, k>> : c \in Callers, k \in {K_rate, K_zeta, S_use_sim_time}}
                 \cup {<<N_talker>>}
      [] method = "setParam" ->
             {<<c, k, S_one>> : c \in Callers,
                                k \in {K_rate, K_zeta, S_use_sim_time}}
                 \cup {<<N_talker>>}
      [] method \in {"unregisterPublisher", "unregisterSubscriber"} ->
             {<<N_talker, T_chatter, S_api>>}
      [] method = "unregisterService" -> {<<N_talker, T_talker_t, S_api>>}
      [] method = "deleteParam" -> {<<N_talker, K_rate>>}
      [] OTHER -> {<<N_talker>>}

\* What the master does with a forwarded request: it replies with a value, or
\* the request fails (xmlrpclib raises).
Replies ==
    {[kind |-> "value", value |-> "reply1"],
     [kind |-> "value", value |-> "reply2"],
     [kind |-> "fault", value |-> "socket.error"]}

\* --output-dir
OutputDir ==
    S_out

\* The arguments of the calls of document received from clients: a directory
\* and a format, which nothing checks to be a supported one.
DocumentRequests ==
    {[outputDir |-> S_out, docFormat |-> MARKDOWN],
     [outputDir |-> S_out, docFormat |-> HTML],
     [outputDir |-> S_out, docFormat |-> "text"],
     [outputDir |-> S_elsewhere, docFormat |-> MARKDOWN]}

\* The names a NodeInfo is created with in SpecNode.
NodeNameInputs ==
    {N_foo_bar, N_foo, N__x, N_talker}

\* The additions to a NodeInfo in SpecNode.
AddInputs ==
    {[op |-> "addParam", key |-> k, type |-> <<>>] : k \in {K_rate, K_zeta}}
        \cup {[op |-> "addPub", key |-> k, type |-> y] :
                 k \in {T_chatter, T_talker_t}, y \in {Y_String, Y_Int32}}
        \cup {[op |-> "addSub", key |-> T_chatter, type |-> y] :
                 y \in {Y_String, Y_Int32}}
        \cup {[op |-> "addService", key |-> T_talker_t, type |-> y] :
                 y \in {Y_String, S_UNKNOWN}}

NoCall ==
    [method |-> "-", args |-> <<>>]

NoResult ==
    [kind |-> "-", value |-> "-"]

(***************************************************************************)
(* State                                                                   *)
(***************************************************************************)
VARIABLES
    nodesArg,    \* args.nodes as given on the command line
    nodeNames,   \* RosMasterFunctions.__nodeNames, RosDocWriter.__nodeNames
    nodes,       \* RosDocWriter.__nodes
    phase,       \* "serving" (serve_forever) or "documented" (main's document)
    calls,       \* the number of calls of master methods served
    docs,        \* the number of runs of document, a client's or main's
    lastCall,    \* the last call received: method and arguments
    hook,        \* its callback: "none", "returned" or "raised"
    steps,       \* what wrap did for it, in order: "callback", "request"
    forwarded,   \* the requests sent to the master while serving it
    result,      \* what wrap gave its caller: a returned value or a raised error
    reply,       \* what the master did with the forwarded request
    docFormat,   \* the docFormat of the last run of document
    docDir,      \* the outputDir of the last run of document
    files,       \* the file system: file name -> lines written
    ni,          \* SpecNode: one NodeInfo
    niLog,       \* SpecNode: the additions made to ni, in order
    niOut        \* SpecNode: the value of the last getCleanName(), or <<"-">>

vars ==
    <<nodesArg, nodeNames, nodes, phase, calls, docs, lastCall, hook, steps,
      forwarded, result, reply, docFormat, docDir, files, ni, niLog, niOut>>

relayVars ==
    <<nodesArg, nodeNames, nodes, phase, calls, docs, lastCall, hook, steps,
      forwarded, result, reply, docFormat, docDir, files>>

nodeVars ==
    <<ni, niLog, niOut>>

NoOut ==
    <<"-">>

\* main: RosMasterProxy(nodeNames) -> RosMasterFunctions(nodeNames) ->
\* RosDocWriter(self.__nodeNames), then serve_forever.
InitRelay(given) ==
    /\ nodesArg = given
    /\ nodeNames = Normalize(given)
    /\ nodes = RosDocWriter_init(Normalize(given))
    /\ phase = "serving"
    /\ calls = 0
    /\ docs = 0
    /\ lastCall = NoCall
    /\ hook = "-"
    /\ steps = <<>>
    /\ forwarded = <<>>
    /\ result = NoResult
    /\ reply = NoResult
    /\ docFormat = "-"
    /\ docDir = <<>>
    /\ files = EmptyDict

InitNode(name) ==
    /\ ni = NodeInfo(name)
    /\ niLog = <<>>
    /\ niOut = NoOut

Init ==
    /\ \E given \in TrackLists : InitRelay(given)
    /\ InitNode(N_talker)

\* RosMasterFunctions.__getWrapper.wrap(*args) for one method: the callback in
\* its try statement, then the request to the master.
Wrap(method, args, rep) ==
    /\ phase = "serving"
    /\ calls + docs < MaxCalls
    /\ LET h == TryCallback(method, args, nodeNames, nodes)
           f == PassThrough(method, args, rep)
       IN  /\ nodes' = h.nodes
           /\ hook' = h.hook
           /\ IF h.propagates
              THEN /\ steps' = h.steps
                   /\ forwarded' = <<>>
                   /\ reply' = NoResult
                   /\ result' = [kind |-> "raise", value |-> "TypeError"]
              ELSE /\ steps' = h.steps \o <<"request">>
                   /\ forwarded' = f.forwarded
                   /\ reply' = rep
                   /\ result' = f.result
    /\ lastCall' = [method |-> method, args |-> args]
    /\ calls' = calls + 1
    /\ UNCHANGED <<nodesArg, nodeNames, phase, docs, docFormat, docDir, files>>
    /\ UNCHANGED nodeVars

\* RosMasterFunctions.document(outputDir, docFormat) called by a client: it
\* is a public method of the instance registered with the server, so the
\* server runs it like any request, and goes on serving (the files are
\* written before the reply is marshalled).  The directory exists; the nodes
\* are written in the order the dict yields them.
DocumentRequest(outputDir, fmt, order) ==
    /\ phase = "serving"
    /\ calls + docs < MaxCalls
    /\ docs' = docs + 1
    /\ docFormat' = fmt
    /\ docDir' = outputDir
    /\ files' = RosDocWriter_document(nodes, order, outputDir, fmt, files)
    /\ UNCHANGED <<nodesArg, nodeNames, nodes, phase, calls, lastCall, hook,
                   steps, forwarded, result, reply>>
    /\ UNCHANGED nodeVars

\* main after the interrupt: masterProxy.document(outputDir, docFormat), with
\* --output-dir and a --doc-format main has found supported.
Document(fmt, order) ==
    /\ phase = "serving"
    /\ phase' = "documented"
    /\ docs' = docs + 1
    /\ docFormat' = fmt
    /\ docDir' = OutputDir
    /\ files' = RosDocWriter_document(nodes, order, OutputDir, fmt, files)
    /\ UNCHANGED <<nodesArg, nodeNames, nodes, calls, lastCall, hook, steps,
                   forwarded, result, reply>>
    /\ UNCHANGED nodeVars

WrapCall ==
    \E i \in 1..Len(RosMasterMethods) :
        \E args \in ArgsFor(RosMasterMethods[i]), rep \in Replies :
            Wrap(RosMasterMethods[i], args, rep)

DocumentCall ==
    \E r \in DocumentRequests, order \in ItemOrders(nodes) :
        DocumentRequest(r.outputDir, r.docFormat, order)

DocumentAll ==
    \E fmt \in SUPPORTED_DOC_FORMATS, order \in ItemOrders(nodes) :
        Document(fmt, order)

Next ==
    \/ WrapCall
    \/ DocumentCall
    \/ DocumentAll

Spec ==
    Init /\ [][Next]_vars

(***************************************************************************)
(* SpecNode: one NodeInfo used directly, for the properties of NodeInfo.   *)
(***************************************************************************)
InitNodeSpec ==
    /\ InitRelay(<<>>)
    /\ \E name \in NodeNameInputs : InitNode(name)

\* One of addParam, addPub, addSub, addService on ni.
NodeAdd(a) ==
    /\ Len(niLog) < MaxAdds
    /\ ni' = CASE a.op = "addParam" -> NodeInfo_addParam(ni, a.key)
               [] a.op = "addPub" -> NodeInfo_addPub(ni, a.key, a.type)
               [] a.op = "addSub" -> NodeInfo_addSub(ni, a.key, a.type)
               [] a.op = "addService" -> NodeInfo_addService(ni, a.key, a.type)
    /\ niLog' = Append(niLog, a)
    /\ UNCHANGED niOut
    /\ UNCHANGED relayVars

\* ni.getCleanName()
NodeGetCleanName ==
    /\ niOut' = getCleanName(ni)
    /\ UNCHANGED <<ni, niLog>>
    /\ UNCHANGED relayVars

NodeAddAny ==
    \E a \in AddInputs : NodeAdd(a)

NextNode ==
    \/ NodeAddAny
    \/ NodeGetCleanName

SpecNode ==
    InitNodeSpec /\ [][NextNode]_vars

(***************************************************************************)
(* Vocabulary of the properties                                            *)
(***************************************************************************)
\* The methods with a pre-call hook, and the number of parameters of each.
HookMethods ==
    {"registerService", "registerSubscriber", "registerPublisher",
     "getParam", "hasParam", "setParam"}

ParamMethods ==
    {"getParam", "hasParam", "setParam"}

HookArity(method) ==
    IF method \in {"getParam", "hasParam"} THEN 2
    ELSE IF method = "setParam" THEN 3
    ELSE 4

\* A call of a hooked method that carries the hook's arguments.
WellFormed(c) ==
    c.method \in HookMethods /\ Len(c.args) = HookArity(c.method)

\* The name of the call (topic, service or key) is in the exclusion list of
\* its method: '/rosout' for publishers, '/tcp_keepalive' and
\* '/use_sim_time' for parameters, nothing for subscribers and services.
Excluded(c) ==
    \/ c.method = "registerPublisher" /\ c.args[2] = S_rosout
    \/ c.method \in ParamMethods
           /\ c.args[2] \in {S_tcp_keepalive, S_use_sim_time}

\* A call whose hook hands a fact to the document writer.
FactCall(c) ==
    WellFormed(c) /\ ~Excluded(c)

\* The fact of call c is in the collection ns, for the caller of c.
Recorded(c, ns) ==
    LET N == c.args[1]
        k == c.args[2]
    IN  /\ N \in DOMAIN ns
        /\ CASE c.method = "registerPublisher" ->
                    k \in DOMAIN ns[N].pubs /\ ns[N].pubs[k] = c.args[3]
             [] c.method = "registerSubscriber" ->
                    k \in DOMAIN ns[N].subs /\ ns[N].subs[k] = c.args[3]
             [] c.method = "registerService" ->
                    k \in DOMAIN ns[N].services /\ ns[N].services[k] = S_UNKNOWN
             [] c.method \in ParamMethods ->
                    \E i \in 1..Len(ns[N].params) : ns[N].params[i] = k

\* A step of the proxy that serves one call.
CallStep ==
    calls' = calls + 1

\* A step that runs document, for a client or for main.
DocStep ==
    docs' = docs + 1

(***************************************************************************)
(* Properties                                                              *)
(***************************************************************************)
\* C1: for every method of RosMasterMethods, an invocation of the wrapper
\* runs the hook first when the method has one, then sends the call exactly
\* once to the master with the original arguments, and returns the master's
\* reply unchanged: also when the hook raised.
C1_HookThenForwardOnce ==
    lastCall # NoCall =>
        /\ \E i \in 1..Len(RosMasterMethods) : RosMasterMethods[i] = lastCall.method
        /\ steps = IF lastCall.method \in HookMethods
                   THEN <<"callback", "request">>
                   ELSE <<"request">>
        /\ hook = IF lastCall.method \notin HookMethods THEN "none"
                  ELSE IF WellFormed(lastCall) THEN "returned"
                  ELSE "raised"
        /\ forwarded = <<[method |-> lastCall.method, args |-> lastCall.args]>>
        /\ reply.kind = "value" =>
               result = [kind |-> "return", value |-> reply.value]

\* C1 witness: the hook raised, and the call was forwarded and the reply
\* returned.
C1_Witness ==
    /\ hook = "raised"
    /\ forwarded = <<lastCall>>
    /\ result = [kind |-> "return", value |-> "reply2"]

\* C2: a fact handed to the document writer for node N is recorded if and
\* only if trackedNames is empty or N is already a key of nodes; otherwise it
\* is dropped without an entry being created and without an error; in
\* track-all mode an unseen node gets its entry with the fact in it.
C2_TrackingFilter ==
    [][(CallStep /\ FactCall(lastCall')) =>
          LET N == lastCall'.args[1]
          IN  IF nodeNames = <<>> \/ N \in DOMAIN nodes
              THEN Recorded(lastCall', nodes')
              ELSE /\ nodes' = nodes
                   /\ N \notin DOMAIN nodes'
                   /\ ~Recorded(lastCall', nodes')
                   /\ hook' = "returned"]_vars

\* C2 witness: with a tracking list, a fact of a node outside it has just
\* been dropped.
C2_Witness ==
    /\ nodeNames # <<>>
    /\ lastCall # NoCall
    /\ FactCall(lastCall)
    /\ lastCall.args[1] \notin DOMAIN nodes
    /\ hook = "returned"

\* C3 as stated: a hooked call whose name is in the exclusion list of its
\* method leaves the collection unchanged and is still forwarded; a call whose
\* name is not excluded records its fact for callerId.
C3_ExclusionLists_AsStated ==
    [][(CallStep /\ WellFormed(lastCall')) =>
          IF Excluded(lastCall')
          THEN /\ nodes' = nodes
               /\ nodeNames' = nodeNames
               /\ forwarded' = <<lastCall'>>
          ELSE Recorded(lastCall', nodes')]_vars

\* C3 amended: a hooked call whose name is in the exclusion list of its
\* method leaves the collection unchanged and is still forwarded; a call whose
\* name is not excluded records its fact for callerId when callerId passes
\* the tracking filter (trackedNames is empty or callerId is a key of nodes),
\* and leaves the collection unchanged when it does not.
C3_ExclusionLists ==
    [][(CallStep /\ WellFormed(lastCall')) =>
          IF Excluded(lastCall')
          THEN /\ nodes' = nodes
               /\ nodeNames' = nodeNames
               /\ forwarded' = <<lastCall'>>
          ELSE IF nodeNames = <<>> \/ lastCall'.args[1] \in DOMAIN nodes
          THEN Recorded(lastCall', nodes')
          ELSE nodes' = nodes /\ forwarded' = <<lastCall'>>]_vars

\* C3 witness: in track-all mode the registration of a publisher of '/rosout'
\* was forwarded and the collection has no entry.
C3_Witness ==
    /\ nodeNames = <<>>
    /\ lastCall.method = "registerPublisher"
    /\ WellFormed(lastCall)
    /\ lastCall.args[2] = S_rosout
    /\ DOMAIN nodes = {}
    /\ forwarded = <<lastCall>>

\* C6: when the request to the master fails, the wrapper raises that same
\* error; the request was sent once and is not sent again; the hook has run
\* before it and the fact it recorded is in the collection.
C6_ForwardFailurePropagates ==
    [][(CallStep /\ reply'.kind = "fault") =>
          /\ result' = [kind |-> "raise", value |-> reply'.value]
          /\ forwarded' = <<lastCall'>>
          /\ lastCall'.method \in HookMethods =>
                 steps' = <<"callback", "request">>
          /\ (/\ FactCall(lastCall')
              /\ (nodeNames = <<>> \/ lastCall'.args[1] \in DOMAIN nodes)) =>
                 Recorded(lastCall', nodes')
          /\ \A n \in DOMAIN nodes : n \in DOMAIN nodes']_vars

\* C6 witness: the request failed, the wrapper raised the master's error and
\* the fact of the call is recorded.
C6_Witness ==
    /\ reply = [kind |-> "fault", value |-> "socket.error"]
    /\ result = [kind |-> "raise", value |-> "socket.error"]
    /\ FactCall(lastCall)
    /\ Recorded(lastCall, nodes)

\* The lines of the section of a rendered document under the heading hdr: the
\* lines after the heading up to the next empty line.
Section(doc, hdr) ==
    LET at == CHOOSE i \in 1..Len(doc) :
                  doc[i] = hdr /\ \A j \in 1..(i - 1) : doc[j] # hdr
        ends == {j \in (at + 1)..Len(doc) : doc[j] = <<>>}
        stop == IF ends = {} THEN Len(doc) + 1
                ELSE CHOOSE j \in ends : \A k \in ends : j <= k
    IN  {doc[i] : i \in (at + 1)..(stop - 1)}

\* C4: for a tracked node N that publishes a topic T of type Y outside its
\* namespace and uses the parameter N + '/' + p, the Markdown document of N
\* that document writes lists '~' + p in its Parameters section and 'T [Y]'
\* in its Publishers section.
C4_PrivateNameRendering ==
    [][(DocStep /\ docFormat' = MARKDOWN) =>
          \A N \in DOMAIN nodes :
              \A i \in 1..Len(nodes[N].params), T \in DOMAIN nodes[N].pubs :
                  LET param == nodes[N].params[i]
                      p == SubSeq(param, Len(N) + 2, Len(param))
                      doc == files'[join(docDir',
                                         getCleanName(nodes[N]) \o S_dot \o S_md)]
                  IN  (param = N \o S_slash \o p /\ ~startswith(T, N)) =>
                          /\ S_item \o S_tilde \o p \o S_todo_type \o TODO_DESC
                                 \in Section(doc, S_params_hdr)
                          /\ S_item \o T \o S_lbr \o nodes[N].pubs[T]
                                 \o S_rbr_dash \o TODO_DESC
                                 \in Section(doc, S_pubs_hdr)]_vars

\* C5: every run of renderAll leaves every node's document in its own file
\* <outputDir>/<canonicalFileStem>.<ext>: two distinct node names have
\* distinct files, no node file is the manifest file, and the files are the
\* same whatever the order in which the nodes are iterated.
C5_OneFilePerNode ==
    [][DocStep =>
          LET fileOf(n) == NodeInfo_filename(nodes[n], docDir', docFormat')
          IN  /\ \A n \in DOMAIN nodes :
                     /\ fileOf(n) \in DOMAIN files'
                     /\ files'[fileOf(n)] = NodeInfo_content(nodes[n], docFormat')
                     /\ fileOf(n) # Manifest_filename(docDir', docFormat')
              /\ \A n1, n2 \in DOMAIN nodes : n1 # n2 => fileOf(n1) # fileOf(n2)
              /\ \A order \in ItemOrders(nodes) :
                     RosDocWriter_document(nodes, order, docDir', docFormat',
                                           files) = files']_vars

C_index ==
    <<"i","n","d","e","x",".">>

C_README ==
    <<"R","E","A","D","M","E",".">>

C_h1_title ==
    <<"<","h","1",">","R","O","S"," ","s","y","s","t","e","m"," ","d","o","c","u","m","e","n","t","a","t","i","o","n","<","/","h","1",">">>

C_h2_nodes ==
    <<"<","h","2",">","N","o","d","e","s","<","/","h","2",">">>

C_li_href ==
    <<"<","l","i",">","<","a"," ","h","r","e","f","=","\"">>

C_href_end ==
    <<"\"",">">>

C_li_end ==
    <<"<","/","a",">","<","/","l","i",">">>

C_link_end ==
    <<")">>

\* The manifest entry of node n, as the claim has it stand in the file: a
\* link to <canonicalFileStem>.<ext>, ext being the extension of the node
\* files.
ManifestEntry(n, fmt) ==
    LET target == getCleanName(nodes[n]) \o S_dot \o FileExtension_get(fmt)
    IN  IF fmt = HTML
        THEN C_li_href \o target \o C_href_end \o n \o C_li_end
        ELSE S_md_link_pre \o n \o S_md_link_mid \o target \o C_link_end

\* The number of node names of the collection below n.
Rank(n) ==
    Cardinality({m \in DOMAIN nodes : StrLess(m, n)})

\* The manifest as C7 describes it, in the file system left by a run
\* of renderAll(dir, fmt) from the file system before: nothing is written
\* for an empty collection; otherwise the manifest is index.<ext> for HTML
\* and README.<ext> otherwise, with one entry per node after the headings,
\* in the order of the node names.
ManifestAsClaimed(before, after, dir, fmt) ==
    LET name == dir \o S_slash
                    \o (IF fmt = HTML THEN C_index ELSE C_README)
                    \o FileExtension_get(fmt)
        head == IF fmt = HTML
                THEN <<S_html_open, S_head, C_h1_title, C_h2_nodes, <<>>,
                       S_ul>>
                ELSE <<S_manifest_title, S_nodes_hdr, <<>>>>
        foot == IF fmt = HTML THEN <<S_ul_close, S_html_close>> ELSE <<>>
        k == Cardinality(DOMAIN nodes)
    IN  /\ k = 0 => after = before
        /\ k > 0 =>
               /\ name \in DOMAIN after
               /\ LET m == after[name]
                  IN  /\ Len(m) = Len(head) + k + Len(foot)
                      /\ SubSeq(m, 1, Len(head)) = head
                      /\ SubSeq(m, Len(head) + k + 1, Len(m)) = foot
                      /\ \A n \in DOMAIN nodes :
                             m[Len(head) + 1 + Rank(n)] = ManifestEntry(n, fmt)

\* C7: renderAll writes a manifest if and only if the collection holds a
\* node; it is index.<ext> for HTML and README.<ext> otherwise; after the
\* headings it has exactly one list entry per node, in lexicographic order of
\* the node names, each linking to <canonicalFileStem>.<ext> of its node.
C7_Manifest ==
    [][DocStep => ManifestAsClaimed(files, files', docDir', docFormat')]_vars

\* The manifest is as C7 describes it whenever the format is one of
\* SUPPORTED_DOC_FORMATS.
ManifestOfSupportedFormats ==
    [][(DocStep /\ docFormat' \in SUPPORTED_DOC_FORMATS) =>
          ManifestAsClaimed(files, files', docDir', docFormat')]_vars

\* A manifest of two nodes was written by a client's call of document and
\* by main's.
ManifestWitness ==
    /\ phase = "documented"
    /\ docs = 2
    /\ docFormat = HTML
    /\ Cardinality(DOMAIN nodes) = 2

\* The type of the last addition of kind op for key in the log, and the keys
\* the log adds with op.
LastType(log, op, key) ==
    LET at == {i \in 1..Len(log) : log[i].op = op /\ log[i].key = key}
        last == CHOOSE i \in at : \A j \in at : j <= i
    IN  log[last].type

KeysAdded(log, op) ==
    {log[i].key : i \in {j \in 1..Len(log) : log[j].op = op}}

\* C8: in one NodeInterface every parameter, topic and service name appears
\* at most once; after any sequence of additions the type stored for a key of
\* a mapping is the type of the last addition for that key in that mapping,
\* and a parameter added again leaves the parameters unchanged: each added
\* name is there once, in the order of the first additions.
C8_KeyUniqueness ==
    /\ \A i, j \in 1..Len(ni.params) : i # j => ni.params[i] # ni.params[j]
    /\ {ni.params[i] : i \in 1..Len(ni.params)} = KeysAdded(niLog, "addParam")
    /\ \A i, j \in 1..Len(ni.params) :
           i < j => \E a \in 1..Len(niLog) :
                        /\ niLog[a].op = "addParam"
                        /\ niLog[a].key = ni.params[i]
                        /\ \A b \in 1..a :
                               niLog[b].op = "addParam" =>
                                   niLog[b].key # ni.params[j]
    /\ DOMAIN ni.pubs = KeysAdded(niLog, "addPub")
    /\ DOMAIN ni.subs = KeysAdded(niLog, "addSub")
    /\ DOMAIN ni.services = KeysAdded(niLog, "addService")
    /\ \A k \in DOMAIN ni.pubs : ni.pubs[k] = LastType(niLog, "addPub", k)
    /\ \A k \in DOMAIN ni.subs : ni.subs[k] = LastType(niLog, "addSub", k)
    /\ \A k \in DOMAIN ni.services :
           ni.services[k] = LastType(niLog, "addService", k)

\* C8 witness: a service was added twice with different types and a
\* parameter twice.
C8_Witness ==
    /\ Len(niLog) = 4
    /\ niLog[1].op = "addService" /\ niLog[2].op = "addService"
    /\ niLog[1].key = niLog[2].key /\ niLog[1].type # niLog[2].type
    /\ niLog[3].op = "addParam" /\ niLog[4] = niLog[3]
    /\ Len(ni.params) = 1

C_foo_bar ==
    <<"f","o","o","_","b","a","r">>

\* The name with every '/' replaced by '_', character by character.
Underscored(name) ==
    [i \in 1..Len(name) |-> IF name[i] = "/" THEN "_" ELSE name[i]]

\* C9: canonicalFileStem depends on the node name only and is the name with
\* every '/' replaced by '_' and then exactly one leading '_' removed if
\* there is one: '/foo/bar' gives 'foo_bar', 'foo' gives 'foo', and the
\* result contains no '/'.
C9_CanonicalFileStem ==
    niOut # NoOut =>
        LET u == Underscored(ni.nodeName)
        IN  /\ niOut = IF Len(u) > 0 /\ u[1] = "_" THEN SubSeq(u, 2, Len(u))
                       ELSE u
            /\ ni.nodeName = N_foo_bar => niOut = C_foo_bar
            /\ ni.nodeName = N_foo => niOut = N_foo
            /\ \A i \in 1..Len(niOut) : niOut[i] # "/"

\* C9 witness: the stem of '/_x' was computed, with facts in the node: one
\* leading '_' is removed and one stays.
C9_Witness ==
    /\ ni.nodeName = N__x
    /\ niOut = <<"_", "x">>
    /\ Len(niLog) > 0

\* The user-supplied name made absolute.
Absolute(name) ==
    IF Len(name) > 0 /\ name[1] = "/" THEN name ELSE <<"/">> \o name

\* C10: every name of the user's tracking list is made absolute ('/'
\* prepended exactly when it does not start with '/') before the document
\* writer is built: with absolute caller ids every key of the node mapping
\* begins with '/', the tracked names are the keys, and a fact from caller
\* '/x' is recorded when the user supplied 'x'.
C10_NodeNameNormalization ==
    /\ Len(nodeNames) = Len(nodesArg)
    /\ \A i \in 1..Len(nodesArg) :
           /\ nodeNames[i] = Absolute(nodesArg[i])
           /\ nodeNames[i] \in DOMAIN nodes
    /\ \A n \in DOMAIN nodes : n[1] = "/"
    /\ (/\ lastCall # NoCall
        /\ FactCall(lastCall)
        /\ \E i \in 1..Len(nodesArg) :
               lastCall.args[1] = <<"/">> \o nodesArg[i]) =>
           Recorded(lastCall, nodes)

\* C10 witness: the user supplied 'talker' and a fact of caller '/talker' is
\* recorded.
C10_Witness ==
    /\ nodesArg = <<N_talker_rel>>
    /\ lastCall # NoCall
    /\ FactCall(lastCall)
    /\ lastCall.args[1] = N_talker
    /\ Recorded(lastCall, nodes)

\* Every entry and every recorded key of the collection a is in b.
Contains(b, a) ==
    \A n \in DOMAIN a :
        /\ n \in DOMAIN b
        /\ \A i \in 1..Len(a[n].params) :
               \E j \in 1..Len(b[n].params) : b[n].params[j] = a[n].params[i]
        /\ DOMAIN a[n].pubs \subseteq DOMAIN b[n].pubs
        /\ DOMAIN a[n].subs \subseteq DOMAIN b[n].subs
        /\ DOMAIN a[n].services \subseteq DOMAIN b[n].services

\* C11: over any sequence of calls (the calls of unregisterPublisher,
\* unregisterSubscriber, unregisterService and deleteParam included) no node
\* entry and no recorded parameter, topic or service key is removed from the
\* collection; a call of a method without a hook leaves it unchanged; with a
\* tracking list the keys of the node mapping stay the initial tracked set.
C11_MonotonicAccumulation ==
    [][/\ Contains(nodes', nodes)
       /\ (CallStep /\ lastCall'.method \notin HookMethods) => nodes' = nodes
       /\ nodesArg # <<>> =>
              DOMAIN nodes' = {Absolute(nodesArg[i]) : i \in 1..Len(nodesArg)}]_vars

\* C11 witness: a publication of a tracked node is still recorded after the
\* call of unregisterPublisher for its topic.
C11_Witness ==
    /\ nodesArg = <<N_talker_rel>>
    /\ lastCall = [method |-> "unregisterPublisher",
                   args |-> <<N_talker, T_chatter, S_api>>]
    /\ forwarded = <<lastCall>>
    /\ T_chatter \in DOMAIN nodes[N_talker].pubs

\* namespaceRelative within the node named N: the prefix N of a name replaced
\* by '~', any other name unchanged.
Relative(N, name) ==
    IF Len(N) <= Len(name) /\ \A i \in 1..Len(N) : name[i] = N[i]
    THEN <<"~">> \o [i \in 1..(Len(name) - Len(N)) |-> name[Len(N) + i]]
    ELSE name

\* The name by which the entries of a section are ordered: the name as
\* listed (after namespaceRelative) or the name as stored.
OrderName(N, name, asListed) ==
    IF asListed THEN Relative(N, name) ELSE name

\* One entry per key of keys, the entry of a key at the position given by the
\* number of keys whose order name is below its own.
Entries(N, keys, entry(_), asListed) ==
    [i \in 1..Cardinality(keys) |->
        entry(CHOOSE k \in keys :
                  Cardinality({m \in keys :
                                  StrLess(OrderName(N, m, asListed),
                                          OrderName(N, k, asListed))}) = i - 1)]

\* The document of a node: the title, then the Parameters, Services,
\* Subscribers and Publishers sections with one entry per stored key.
ExpectedDocument(self, asListed) ==
    LET N == self.nodeName
        paramEntry(k) == S_item \o Relative(N, k) \o S_todo_type \o TODO_DESC
        typed(d, k) == S_item \o Relative(N, k) \o S_lbr \o d[k] \o S_rbr_dash
                           \o TODO_DESC
        serviceEntry(k) == typed(self.services, k)
        subEntry(k) == typed(self.subs, k)
        pubEntry(k) == typed(self.pubs, k)
    IN  <<S_title_pre \o N \o S_title_post, <<>>, S_params_hdr>>
            \o Entries(N, {self.params[i] : i \in 1..Len(self.params)},
                       paramEntry, asListed)
            \o <<<<>>, S_services_hdr>>
            \o Entries(N, DOMAIN self.services, serviceEntry, asListed)
            \o <<<<>>, S_subs_hdr>>
            \o Entries(N, DOMAIN self.subs, subEntry, asListed)
            \o <<<<>>, S_pubs_hdr>>
            \o Entries(N, DOMAIN self.pubs, pubEntry, asListed)

\* The list entries of a document, in order: the lines '- x' of a Markdown
\* document as '<li>x</li>', the lines '<li>...' of an HTML document.
RECURSIVE ListEntries(_, _)
ListEntries(doc, fmt) ==
    IF doc = <<>> THEN <<>>
    ELSE LET line == Head(doc)
             rest == ListEntries(Tail(doc), fmt)
         IN  IF fmt = HTML
             THEN IF startswith(line, S_li) THEN <<line>> \o rest ELSE rest
             ELSE IF startswith(line, S_item)
                  THEN <<S_li \o SubSeq(line, 3, Len(line)) \o S_li_close>> \o rest
                  ELSE rest

\* The files a run of document(dir, fmt) creates or changes are the manifest
\* and documents of nodes of the collection.
WrittenAreDocuments(before, after, dir, fmt) ==
    LET documents == {<<NodeInfo_filename(nodes[N], dir, fmt),
                        NodeInfo_content(nodes[N], fmt)>> : N \in DOMAIN nodes}
    IN  \A f \in DOMAIN after :
            (f \notin DOMAIN before \/ after[f] # before[f]) =>
                \/ f = Manifest_filename(dir, fmt)
                \/ <<f, after[f]>> \in documents

\* The rendered documents of the nodes of the collection are the expected
\* ones: the Markdown lines (written for every format but HTML), and the list
\* entries of the HTML document.
RenderedAsExpected(asListed) ==
    \A N \in DOMAIN nodes :
        /\ NodeInfo_content(nodes[N], MARKDOWN)
               = ExpectedDocument(nodes[N], asListed)
        /\ NodeInfo_content(nodes[N], "text")
               = ExpectedDocument(nodes[N], asListed)
        /\ ListEntries(NodeInfo_content(nodes[N], HTML), HTML)
               = ListEntries(ExpectedDocument(nodes[N], asListed), MARKDOWN)

\* C12 as stated: a node's document has the title line, then the Parameters,
\* Services, Subscribers and Publishers sections, each with exactly one entry
\* per stored key; every name is passed through namespaceRelative, and the
\* entries of a section are in lexicographic order of the names as listed.
C12_RenderOrder_AsStated ==
    /\ [][DocStep =>
              WrittenAreDocuments(files, files', docDir', docFormat')]_vars
    /\ [](RenderedAsExpected(TRUE))

\* C12 amended: a node's document has the title line, then the Parameters,
\* Services, Subscribers and Publishers sections, each with exactly one entry
\* per stored key; every name is passed through namespaceRelative, and the
\* entries of a section are in lexicographic order of the names as stored
\* (the fully-qualified names, before namespaceRelative).
C12_RenderOrder ==
    /\ [][DocStep =>
              WrittenAreDocuments(files, files', docDir', docFormat')]_vars
    /\ [](RenderedAsExpected(FALSE))

C_out_talker_md ==
    <<"o","u","t","/","t","a","l","k","e","r",".","m","d">>

\* C12 witness: the document of '/talker' was written with the parameters
\* '/zeta' and '/talker/rate', recorded in this order.
C12_Witness ==
    /\ docs > 0
    /\ docDir = OutputDir
    /\ docFormat = MARKDOWN
    /\ N_talker \in DOMAIN nodes
    /\ nodes[N_talker].params = <<K_zeta, K_rate>>
    /\ C_out_talker_md \in DOMAIN files
    /\ files[C_out_talker_md] = NodeInfo_content(nodes[N_talker], MARKDOWN)
    /\ Len(files[C_out_talker_md]) = 11

====
